---- MODULE Spec2Model ----
(***************************************************************************)
(* The parser-combinator engine (analyzer.rs), the cursor (stream.rs) and  *)
(* the lexer built on them (lexer.rs), as an abstract machine. The         *)
(* repository holds two lexer.rs, src/src/lexer.rs (run by main.rs) and    *)
(* src/parser/src/lexer.rs; both are built from the same combinators.      *)
(*                                                                         *)
(* An analyzer is a tree of records; Analyzer::analyze is run by a stack   *)
(* machine: `ctl` is either a call of an analyzer or a result being        *)
(* returned, `stack` holds one frame per analyze() invocation that waits   *)
(* for a callee (its local variables), `data`/`pos` are the Stream.        *)
(***************************************************************************)
EXTENDS Integers, Sequences, FiniteSets, TLC

VARIABLES
    data,   \* Stream.0: the input symbols
    pos,    \* Stream.1: the cursor position
    ctl,    \* the machine's control: idle, a call, or a returning result
    stack,  \* frames of the analyze() invocations in progress, innermost first
    root,   \* history: the analyzer handed to the outermost analyze()
    start,  \* history: the cursor position when that run began
    hist,   \* history: calls and returns of the root analyzer's direct callees
    tick,   \* history: the parity of the number of steps of the run
    crate   \* which lexer.rs the rules come from: src/src or src/parser/src

vars == <<data, pos, ctl, stack, root, start, hist, tick, crate>>

-----------------------------------------------------------------------------
(* Bounds of the model *)

\* longest input of the engine runs
MaxLen == 3
\* result lists (and the loop counter) are tracked up to this length
LoopCap == 12

\* the input symbols of the engine runs
Sym == {"a", "b"}

-----------------------------------------------------------------------------
(* Option<T>, unit, results and errors *)

None == <<>>
Some(x) == <<x>>
Unit == "()"

Ok(v) == [ok |-> TRUE, val |-> v]
Err(e) == [ok |-> FALSE, err |-> e]

ExpectAny == [k |-> "Any"]
ExpectEof == [k |-> "Eof"]
ExpectToken(t) == [k |-> "Token", t |-> t]
ExpectUnknown == [k |-> "Unknown"]

AnalyzerError(p, unexpected, expecting) ==
    [pos |-> p, unexpected |-> unexpected, expecting |-> expecting]

\* what an analyze() call hands back: its result and the cursor it leaves
Out(r, p) == [r |-> r, pos |-> p]

-----------------------------------------------------------------------------
(* Stream *)

\* usize: a value within UsizeNear of the top of the range is written as its
\* distance from 2^64, negated (usize::MAX is -1); on these integers + is the
\* wrapping sum, and a sum overflows when it passes from negative to not
UsizeLeq(a, b) == IF (a < 0) = (b < 0) THEN a <= b ELSE b < 0
Overflows(a, b) == (a < 0 /\ b < 0) \/ ((a < 0 \/ b < 0) /\ a + b >= 0)

\* self.0.get(self.1 + i).cloned()
peak_index(d, p, i) ==
    IF 0 <= p + i /\ p + i < Len(d) THEN Some(d[p + i + 1]) ELSE None

peak(d, p) == peak_index(d, p, 0)

\* a set_pos without the bound check
set_pos_unchecked(d, p, q) == [res |-> Some(Unit), pos |-> q]

\* set_pos: Some(()) and the new position, or None and the old one
set_pos(d, p, q) ==
    IF UsizeLeq(q, Len(d)) THEN [res |-> Some(Unit), pos |-> q]
    ELSE [res |-> None, pos |-> p]

add_pos(d, p, x) == set_pos(d, p, p + x)

next(d, p) == add_pos(d, p, 1)

eof(d, p) == Len(d) <= p

-----------------------------------------------------------------------------
(* Analyzers: the structs of analyzer.rs as records *)

AnyOne == [op |-> "any_one"]
Eof == [op |-> "eof"]
Val(x) == [op |-> "val", x |-> x]
Token(x) == [op |-> "token", x |-> x]
Tokens(xs) == [op |-> "tokens", xs |-> xs]
Expect(f) == [op |-> "expect", f |-> f]
Fail == [op |-> "fail"]
Attempt(a) == [op |-> "attempt", a |-> a]
Map(f, a) == [op |-> "map", f |-> f, a |-> a]
Or(a, b) == [op |-> "or", a |-> a, b |-> b]
And(a, b) == [op |-> "and", a |-> a, b |-> b]
With(a, b) == [op |-> "with", a |-> a, b |-> b]
Skip(a, b) == [op |-> "skip", a |-> a, b |-> b]
Optional(a) == [op |-> "optional", a |-> a]
Loop(a, x, y) == [op |-> "loop", a |-> a, min |-> x, max |-> y]
Msg(a, m) == [op |-> "msg", a |-> a, msg |-> m]
Then(a, f) == [op |-> "then", a |-> a, f |-> f]
AnalyzerFunc(f) == [op |-> "func", f |-> f]
EitherRight(a) == [op |-> "either", side |-> "Right", a |-> a]
EitherLeft(a) == [op |-> "either", side |-> "Left", a |-> a]

many(a) == Loop(a, None, None)
many1(a) == Loop(a, Some(1), None)
many_n(a, n) == Loop(a, Some(n), Some(n))

\* the or! macro: or!(x) is x, or!(x, xs...) is x.or(or!(xs...))
RECURSIVE or(_)
or(xs) == IF Len(xs) = 1 THEN xs[1] ELSE Or(xs[1], or(Tail(xs)))

-----------------------------------------------------------------------------
(* The primitive analyzers: result and cursor of one analyze() call *)

AnyOneAnalyze(d, p) ==
    LET val == peak(d, p) IN
    IF val = None THEN Out(Err(AnalyzerError(p, None, ExpectAny)), p)
    ELSE Out(Ok(val[1]), next(d, p).pos)

EofAnalyze(d, p) ==
    LET x == peak(d, p) IN
    IF x # None THEN Out(Err(AnalyzerError(p, x, ExpectEof)), p)
    ELSE Out(Ok(Unit), p)

TokenAnalyze(t, d, p) ==
    LET res == peak(d, p) IN
    IF res = None THEN Out(Err(AnalyzerError(p, None, ExpectToken(t))), p)
    ELSE IF res[1] = t THEN Out(Ok(res[1]), next(d, p).pos)
    ELSE Out(Err(AnalyzerError(p, res, ExpectToken(t))), p)

RECURSIVE TokensFrom(_, _, _, _, _)
TokensFrom(xs, i, res, d, p) ==
    IF i > Len(xs) THEN Out(Ok(res), p)
    ELSE LET y == peak(d, p) IN
         IF y = None
         THEN Out(Err(AnalyzerError(p, None, ExpectToken(xs[i]))), p)
         ELSE IF xs[i] = y[1]
         THEN TokensFrom(xs, i + 1, Append(res, y[1]), d, next(d, p).pos)
         ELSE Out(Err(AnalyzerError(p, y, ExpectToken(xs[i]))), p)

FailAnalyze(d, p) == Out(Err(AnalyzerError(p, peak(d, p), ExpectUnknown)), p)

-----------------------------------------------------------------------------
(* Characters: one-character strings; the ASCII table from code 32 to 126 *)
(* (code 96 is spelled out: the grave accent cannot be written in a string) *)

AsciiPrintable ==
    << " ", "!", "\"", "#", "$", "%", "&", "'", "(", ")", "*", "+", ",", "-",
       ".", "/", "0", "1", "2", "3", "4", "5", "6", "7", "8", "9", ":", ";",
       "<", "=", ">", "?", "@", "A", "B", "C", "D", "E", "F", "G", "H", "I",
       "J", "K", "L", "M", "N", "O", "P", "Q", "R", "S", "T", "U", "V", "W",
       "X", "Y", "Z", "[", "\\", "]", "^", "_", "grave", "a", "b", "c", "d", "e",
       "f", "g", "h", "i", "j", "k", "l", "m", "n", "o", "p", "q", "r", "s",
       "t", "u", "v", "w", "x", "y", "z", "{", "|", "}", "~" >>

CharRange(lo, hi) == {AsciiPrintable[i - 31] : i \in lo..hi}

UpperCase == CharRange(65, 90)
LowerCase == CharRange(97, 122)
Digits == CharRange(48, 57)

is_ascii_alphabetic(c) == c \in UpperCase \cup LowerCase
is_ascii_digit(c) == c \in Digits
is_ascii_alphanumeric(c) == is_ascii_alphabetic(c) \/ is_ascii_digit(c)

CodeOf(c) == CHOOSE i \in 32..126 : AsciiPrintable[i - 31] = c

to_ascii_lowercase(c) ==
    IF c \in UpperCase THEN AsciiPrintable[CodeOf(c) + 32 - 31] ELSE c

\* the lexer's hex digit test: digit, or 'a'..='f', or 'A'..='F'
IsHexDigit(c) ==
    is_ascii_digit(c) \/ c \in CharRange(97, 102) \/ c \in CharRange(65, 70)

HexDigitVal(c) == IF c \in Digits THEN CodeOf(c) - 48 ELSE CodeOf(c) - 97 + 10

\* u32::from_str_radix(s, 16) of at most 8 lower-case hex digits, as the
\* pair (high 16 bits, low 16 bits) of the u32
from_str_radix_16(s) ==
    LET n == Len(s)
        \* the k-th digit from the right, 0 where s has none
        d(k) == IF k <= n THEN HexDigitVal(s[n - k + 1]) ELSE 0
    IN [hi |-> d(5) + 16 * d(6) + 256 * d(7) + 4096 * d(8),
        lo |-> d(1) + 16 * d(2) + 256 * d(3) + 4096 * d(4)]

\* the char with scalar value x: itself a one-character string when it is in
\* the table (or a tab, newline, carriage return), its code point otherwise
CharOfCode(x) ==
    IF x \in 32..126 THEN AsciiPrintable[x - 31]
    ELSE IF x = 9 THEN "\t"
    ELSE IF x = 10 THEN "\n"
    ELSE IF x = 13 THEN "\r"
    ELSE [codepoint |-> x]

\* std::char::from_u32: None for a surrogate (0xD800..=0xDFFF) and above 0x10FFFF
from_u32(u) ==
    IF u.hi > 16 \/ (u.hi = 0 /\ u.lo >= 55296 /\ u.lo <= 57343) THEN None
    ELSE Some(CharOfCode(u.hi * 65536 + u.lo))

-----------------------------------------------------------------------------
(* Numbers: str::parse of a string of decimal digits *)

RECURSIVE StripLeadingZeros(_)
StripLeadingZeros(s) ==
    IF Len(s) > 1 /\ s[1] = "0" THEN StripLeadingZeros(Tail(s)) ELSE s

RECURSIVE StripTrailingZeros(_)
StripTrailingZeros(s) ==
    IF Len(s) > 1 /\ s[Len(s)] = "0"
    THEN StripTrailingZeros(SubSeq(s, 1, Len(s) - 1)) ELSE s

\* digit strings without leading zeros: s <= t as numbers
RECURSIVE DigitsLeq(_, _)
DigitsLeq(s, t) ==
    IF Len(s) # Len(t) THEN Len(s) < Len(t)
    ELSE IF s = <<>> THEN TRUE
    ELSE IF s[1] # t[1] THEN CodeOf(s[1]) < CodeOf(t[1])
    ELSE DigitsLeq(Tail(s), Tail(t))

I32Max == <<"2", "1", "4", "7", "4", "8", "3", "6", "4", "7">>
I64Max == <<"9", "2", "2", "3", "3", "7", "2", "0", "3", "6", "8", "5", "4",
            "7", "7", "5", "8", "0", "7">>

\* s.parse::<i32>() / s.parse::<i64>() of a digit string: the number (its
\* digits without leading zeros) or None on overflow
ParseInt(s, max) ==
    LET n == StripLeadingZeros(s) IN
    IF DigitsLeq(n, max) THEN Some(n) ELSE None

\* "int.frac".parse::<f32/f64>() of two digit strings: always Ok; the value as
\* the decimal it denotes (binary rounding is not modelled)
ParseFloat(s1, s2) ==
    Some([int |-> StripLeadingZeros(s1), frac |-> StripTrailingZeros(s2)])

-----------------------------------------------------------------------------
(* The closures handed to expect, map and then *)

\* expect(f): the predicates the lexer uses, and one of the engine runs
ExpectFn(f, c) ==
    CASE f = "not_newline" -> c # "\n"
      [] f = "alphabetic" -> is_ascii_alphabetic(c)
      [] f = "alphanumeric_" -> is_ascii_alphanumeric(c) \/ c = "_"
      [] f = "digit" -> is_ascii_digit(c)
      [] f = "hex" -> IsHexDigit(c)
      [] f = "is_a" -> c = "a"
      [] f = "not_quote" -> c # "'"
      [] f = "not_double_quote" -> c # "\""

Pair(x, y) == [fst |-> x, snd |-> y]

\* x.into_iter().filter_map(|x| x).collect(): the values of the Some's
RECURSIVE FilterMap(_)
FilterMap(xs) ==
    IF xs = <<>> THEN <<>> ELSE Head(xs) \o FilterMap(Tail(xs))

\* map(f): a String is the sequence of its chars, as a Vec<char> is
MapFn(f, x) ==
    CASE f = "collect" -> x
      [] f = "insert0_collect" -> <<x.fst>> \o x.snd
      [] f = "to_ascii_lowercase" -> to_ascii_lowercase(x)
      [] f = "from_str_radix_from_u32" -> from_u32(from_str_radix_16(x))
      [] f = "Kind::Symbol" -> [t |-> "Symbol", v |-> x]
      [] f = "Kind::Literal" -> [t |-> "Literal", v |-> x]
      [] f = "Literal::Char" -> [t |-> "Char", v |-> x]
      [] f = "Literal::String" -> [t |-> "String", v |-> x]
      [] f = "Literal::Num" -> [t |-> "Num", v |-> x]
      [] f = "wrap" -> <<x>>
      [] f = "None" -> None
      [] f = "Some" -> Some(x)
      [] f = "filter_map" -> FilterMap(x)

\* the closure of num_literal's then: suffix dispatch and numeric parse
NumLiteralThen(x) ==
    LET s1 == x.fst.fst
        dot_num == x.fst.snd
        suffix == x.snd
        parsed(r, tag) ==
            IF r # None THEN EitherRight(Val([t |-> tag, v |-> r[1]]))
            ELSE EitherLeft(Fail)
    IN IF dot_num # None
       THEN LET s2 == dot_num[1].snd IN
            IF suffix = None \/ suffix = Some(<<"f", "6", "4">>)
            THEN parsed(ParseFloat(s1, s2), "F64")
            ELSE IF suffix = Some(<<"f", "3", "2">>)
            THEN parsed(ParseFloat(s1, s2), "F32")
            ELSE EitherLeft(Fail)
       ELSE IF suffix = None \/ suffix = Some(<<"i", "3", "2">>)
            THEN parsed(ParseInt(s1, I32Max), "I32")
            ELSE IF suffix = Some(<<"i", "6", "4">>)
            THEN parsed(ParseInt(s1, I64Max), "I64")
            ELSE EitherLeft(Fail)

\* the closure of num_literal's then in src/parser/src/lexer.rs (digits
\* without a fraction parse as a float with fraction 0)
ParserNumLiteralThen(x) ==
    LET s1 == x.fst.fst
        dot_num == x.fst.snd
        suffix == x.snd
        parse(r, tag) ==
            IF r # None THEN EitherRight(Val([t |-> tag, v |-> r[1]]))
            ELSE EitherLeft(Fail)
    IN IF dot_num # None
       THEN LET s2 == dot_num[1].snd IN
            IF suffix = None \/ suffix = Some(<<"f", "6", "4">>)
            THEN parse(ParseFloat(s1, s2), "F64")
            ELSE IF suffix = Some(<<"f", "3", "2">>)
            THEN parse(ParseFloat(s1, s2), "F32")
            ELSE EitherLeft(Fail)
       ELSE IF suffix = None \/ suffix = Some(<<"i", "3", "2">>)
            THEN parse(ParseInt(s1, I32Max), "I32")
            ELSE IF suffix = Some(<<"i", "6", "4">>)
            THEN parse(ParseInt(s1, I64Max), "I64")
            ELSE IF suffix = Some(<<"f", "3", "2">>)
            THEN parse(ParseFloat(s1, <<"0">>), "F32")
            ELSE IF suffix = Some(<<"f", "6", "4">>)
            THEN parse(ParseFloat(s1, <<"0">>), "F64")
            ELSE EitherLeft(Fail)

\* the closure of hex_char's then
HexCharThen(x) == IF x # None THEN EitherRight(Val(x[1])) ELSE EitherLeft(Fail)

\* then(f): the analyzer the closure builds from the value
ThenFn(f, x) ==
    CASE f = "num_literal" -> NumLiteralThen(x)
      [] f = "parser::num_literal" -> ParserNumLiteralThen(x)
      [] f = "hex_char" -> HexCharThen(x)
      [] f = "token" -> Token(x)

-----------------------------------------------------------------------------
(* The lexer's rules: each pub fn builds its analyzer when it is called *)

Rule(name) == [op |-> "rule", name |-> name]
RuleArg(name, arg) == [op |-> "rule", name |-> name, arg |-> arg]

string(s) == Map("collect", Tokens(s))

literal_char(lit) == [op |-> "func", f |-> "literal_char", lit |-> lit]

skip ==
    LET spaces == With(many(or(<<Token(" "), Token("\n"), Token("\t")>>)),
                       Val(Unit))
        line_comment ==
            With(With(With(string(<<"/", "/">>), many(Expect("not_newline"))),
                      Optional(Token("\n"))),
                 Val(Unit))
        block_comment == AnalyzerFunc("block_comment_f")
        comment == Or(Attempt(line_comment), block_comment)
    IN With(many(Or(spaces, comment)), Val(Unit))

\* the body of fn block_comment_f
block_comment_f ==
    With(With(With(string(<<"/", "*">>), many(AnalyzerFunc("block_comment_step"))),
              string(<<"*", "/">>)),
         Val(Unit))

ident_str ==
    Map("insert0_collect",
        And(Expect("alphabetic"), many(Expect("alphanumeric_"))))

num_literal ==
    LET num == Map("collect", many1(Expect("digit"))) IN
    Then(And(And(num, Optional(And(Token("."), num))),
             Optional(Rule("ident_str"))),
         "num_literal")

hex_char(len) ==
    Then(Map("from_str_radix_from_u32",
             many_n(Map("to_ascii_lowercase", Expect("hex")), len)),
         "hex_char")

lexer ==
    Skip(Skip(many1(With(Rule("skip"), Rule("one_token"))), Rule("skip")), Eof)

one_token == AnalyzerFunc("one_token")

kind ==
    or(<<Rule("ident_or_keyword"),
         Map("Kind::Symbol", Rule("symbol")),
         Map("Kind::Literal", Rule("literal"))>>)

literal ==
    or(<<Map("Literal::Char", Rule("char_literal")),
         Map("Literal::String", Rule("string_literal")),
         Map("Literal::Num", Rule("num_literal"))>>)

char_literal ==
    Skip(With(Token("'"), RuleArg("literal_char", "'")), Token("'"))

string_literal ==
    Skip(With(Token("\""),
              Map("collect", many(RuleArg("literal_char", "\"")))),
         Token("\""))

ident_or_keyword == AnalyzerFunc("ident_or_keyword")

\* the reserved words of ident_or_keyword's match, in its order
Keywords ==
    << <<<<"i", "3", "2">>, "I32">>,
       <<<<"i", "6", "4">>, "I64">>,
       <<<<"F", "3", "2">>, "F32">>,
       <<<<"F", "6", "4">>, "F64">>,
       <<<<"s", "t", "r", "i", "n", "g">>, "String">>,
       <<<<"b", "o", "o", "l">>, "Bool">>,
       <<<<"c", "h", "a", "r">>, "Char">>,
       <<<<"t", "r", "u", "e">>, "True">>,
       <<<<"f", "a", "l", "s", "e">>, "False">>,
       <<<<"l", "e", "t">>, "Let">>,
       <<<<"i", "f">>, "If">>,
       <<<<"w", "h", "i", "l", "e">>, "While">>,
       <<<<"r", "e", "t", "u", "r", "n">>, "Return">>,
       <<<<"s", "t", "r", "u", "c", "t">>, "Struct">>,
       <<<<"f", "u", "n">>, "Fun">>,
       <<<<"e", "x", "t", "e", "r", "n">>, "Extern">>,
       <<<<"f", "o", "r">>, "For">> >>

\* the match taken on the start of the text instead of the whole of it
KindOfIdent_starts_with(s) ==
    LET hit(i) == /\ Len(Keywords[i][1]) <= Len(s)
                  /\ SubSeq(s, 1, Len(Keywords[i][1])) = Keywords[i][1]
    IN IF \E i \in 1..Len(Keywords) : hit(i)
       THEN [t |-> "Keyword",
             v |-> Keywords[CHOOSE i \in 1..Len(Keywords) : hit(i)][2]]
       ELSE [t |-> "Ident", v |-> s]

\* the match of ident_or_keyword on the identifier's text
KindOfIdent(s) ==
    IF \E i \in 1..Len(Keywords) : Keywords[i][1] = s
    THEN [t |-> "Keyword",
          v |-> Keywords[CHOOSE i \in 1..Len(Keywords) : Keywords[i][1] = s][2]]
    ELSE [t |-> "Ident", v |-> s]

tok1(c, sym) == With(Token(c), Val(sym))
\* a two-character operator tried without attempt
tok2_no_attempt(c1, c2, sym) == With(string(<<c1, c2>>), Val(sym))

tok2(c1, c2, sym) == Attempt(With(string(<<c1, c2>>), Val(sym)))

symbol ==
    or(<<tok1(".", "Dot"),
         tok1(",", "Comma"),
         tok1(":", "Colon"),
         tok1(";", "Semicolon"),
         tok1("(", "OpenParent"),
         tok1(")", "CloseParent"),
         tok1("[", "OpenBracket"),
         tok1("]", "CloseBracket"),
         tok1("{", "OpenBrace"),
         tok1("}", "CloseBrace"),
         tok2("!", "=", "Ne"),
         tok1("!", "Not"),
         tok1("+", "Add"),
         tok1("-", "Sub"),
         tok2("*", "*", "Pow"),
         tok1("*", "Mul"),
         tok1("/", "Div"),
         tok1("%", "Mod"),
         tok2("&", "&", "And"),
         tok1("&", "BitAnd"),
         tok2("|", "|", "Or"),
         tok1("|", "BitOr"),
         tok1("^", "BitXor"),
         tok2("<", "=", "Lte"),
         tok1("<", "Lt"),
         tok2(">", "=", "Gte"),
         tok1(">", "Gt"),
         tok2("=", "=", "Eq"),
         tok1("=", "Assign")>>)

RuleBody(r) ==
    CASE r.name = "skip" -> skip
      [] r.name = "ident_str" -> ident_str
      [] r.name = "num_literal" -> num_literal
      [] r.name = "hex_char" -> hex_char(r.arg)
      [] r.name = "lexer" -> lexer
      [] r.name = "one_token" -> one_token
      [] r.name = "kind" -> kind
      [] r.name = "literal" -> literal
      [] r.name = "literal_char" -> literal_char(r.arg)
      [] r.name = "char_literal" -> char_literal
      [] r.name = "string_literal" -> string_literal
      [] r.name = "ident_or_keyword" -> ident_or_keyword
      [] r.name = "symbol" -> symbol

-----------------------------------------------------------------------------
(* The rules of src/parser/src/lexer.rs that differ from src/src/lexer.rs. *)
(* Its combinators (crate::parser) have the names and the use of those of  *)
(* analyzer.rs and run as such; x.val(v) is x.with(val(v)).                *)

parser_space ==
    With(or(<<Token(" "), Token("\n"), Token("\t")>>), Val(Unit))

parser_line_comment ==
    With(With(With(string(<<"/", "/">>), many(Expect("not_newline"))),
              Optional(Token("\n"))),
         Val(Unit))

\* the closure of block_comment is the one of skip's block_comment_f
parser_block_comment == AnalyzerFunc("block_comment_f")

parser_comment == Or(Attempt(Rule("line_comment")), Rule("block_comment"))

parser_skip == Or(Rule("space"), Rule("comment"))

parser_num_literal ==
    LET num == Map("collect", many1(Expect("digit"))) IN
    Then(And(And(num, Optional(And(Token("."), num))),
             Optional(Rule("ident_str"))),
         "parser::num_literal")

parser_lexer ==
    Skip(Map("filter_map",
             many(Or(Map("None", Rule("skip")), Map("Some", Rule("one_token"))))),
         Eof)

parser_literal_char(lit) ==
    or(<<With(Token("\\"),
              or(<<With(Token("t"), Val("\t")),
                   With(Token("n"), Val("\n")),
                   With(Token("r"), Val("\r")),
                   With(Token("\\"), Val("\\")),
                   With(Token(lit), Val(lit)),
                   With(Token("x"), RuleArg("hex_char", 2)),
                   With(Token("u"), RuleArg("hex_char", 4)),
                   With(Token("U"), RuleArg("hex_char", 8))>>)),
         Expect(IF lit = "'" THEN "not_quote" ELSE "not_double_quote")>>)

\* the pub fns of src/parser/src/lexer.rs; those not listed read as in
\* src/src/lexer.rs
ParserRuleBody(r) ==
    CASE r.name = "space" -> parser_space
      [] r.name = "line_comment" -> parser_line_comment
      [] r.name = "block_comment" -> parser_block_comment
      [] r.name = "comment" -> parser_comment
      [] r.name = "skip" -> parser_skip
      [] r.name = "num_literal" -> parser_num_literal
      [] r.name = "lexer" -> parser_lexer
      [] r.name = "literal_char" -> parser_literal_char(r.arg)
      [] OTHER -> RuleBody(r)

-----------------------------------------------------------------------------
(* The machine: analyze() calls as steps. ctl is the call being made or the *)
(* result being returned; stack holds, innermost first, the local variables *)
(* of the analyze() calls that wait for a callee.                           *)

Call(a) == [mode |-> "call", a |-> a]
Ret(r) == [mode |-> "ret", r |-> r]
NoRun == [op |-> "none"]

Running == ctl.mode = "call" \/ (ctl.mode = "ret" /\ stack # <<>>)
Done == ctl.mode = "ret" /\ stack = <<>>
Calling(op) == ctl.mode = "call" /\ ctl.a.op = op
CallingFunc(f) == Calling("func") /\ ctl.a.f = f
Returning(op) == ctl.mode = "ret" /\ stack # <<>> /\ Head(stack).op = op

\* what a step of analyze() does: it returns r, or calls a and waits in frame
Return(r, p) == [do |-> "ret", r |-> r, pos |-> p]
Enter(frame, a, p) == [do |-> "call", frames |-> <<frame>>, a |-> a, pos |-> p]

\* history: what the root analyzer's direct callees were called with and
\* what they returned
History ==
    /\ UNCHANGED <<data, root, start, crate>>
    /\ tick' = 1 - tick
    /\ hist' =
         LET h == IF ctl.mode = "ret" /\ Len(stack) = 1
                  THEN Append(hist, [ev |-> "ret", r |-> ctl.r, pos |-> pos])
                  ELSE hist
         IN IF ctl'.mode = "call" /\ Len(stack') = 1 /\ ~Calling("rule")
            THEN Append(h, [ev |-> "call", a |-> ctl'.a, pos |-> pos'])
            ELSE h

\* a primitive analyzer returns at once
Primitive(o) ==
    /\ pos' = o.pos
    /\ ctl' = Ret(o.r)
    /\ UNCHANGED stack
    /\ History

\* the called analyzer returns at once, or calls an analyzer
OnCall(m) ==
    /\ pos' = m.pos
    /\ IF m.do = "ret"
       THEN ctl' = Ret(m.r) /\ UNCHANGED stack
       ELSE ctl' = Call(m.a) /\ stack' = m.frames \o stack
    /\ History

\* the analyzer whose frame is innermost resumes with its callee's result
OnRet(m) ==
    /\ pos' = m.pos
    /\ IF m.do = "ret"
       THEN ctl' = Ret(m.r) /\ stack' = Tail(stack)
       ELSE ctl' = Call(m.a) /\ stack' = m.frames \o Tail(stack)
    /\ History

-----------------------------------------------------------------------------
(* The analyze() methods of analyzer.rs *)

AnyOne_analyze == Calling("any_one") /\ Primitive(AnyOneAnalyze(data, pos))

Eof_analyze == Calling("eof") /\ Primitive(EofAnalyze(data, pos))

Val_analyze == Calling("val") /\ Primitive(Out(Ok(ctl.a.x), pos))

Token_analyze == Calling("token") /\ Primitive(TokenAnalyze(ctl.a.x, data, pos))

Tokens_analyze ==
    Calling("tokens") /\ Primitive(TokensFrom(ctl.a.xs, 1, <<>>, data, pos))

Expect_analyze ==
    /\ Calling("expect")
    /\ LET x == peak(data, pos)
       IN Primitive(IF x = None
                    THEN Out(Err(AnalyzerError(pos, None, ExpectUnknown)), pos)
                    ELSE IF ExpectFn(ctl.a.f, x[1])
                    THEN Out(Ok(x[1]), next(data, pos).pos)
                    ELSE Out(Err(AnalyzerError(pos, x, ExpectUnknown)), pos))

Fail_analyze == Calling("fail") /\ Primitive(FailAnalyze(data, pos))

\* let pos = st.pos(); self.0.analyze(st)
Attempt_analyze ==
    /\ Calling("attempt")
    /\ OnCall(Enter([op |-> "attempt", pos |-> pos], ctl.a.a, pos))

\* an attempt that leaves the cursor where the failure left it
Attempt_resume_no_rewind ==
    Returning("attempt") /\ OnRet(Return(ctl.r, pos))

\* an attempt that goes back to the recorded position on success too
Attempt_resume_rewind_always ==
    /\ Returning("attempt")
    /\ OnRet(Return(ctl.r, set_pos(data, pos, Head(stack).pos).pos))

\* if let Err(_) = res { st.set_pos(pos); }; res
Attempt_resume ==
    /\ Returning("attempt")
    /\ OnRet(Return(ctl.r, IF ~ctl.r.ok
                           THEN set_pos(data, pos, Head(stack).pos).pos
                           ELSE pos))

Map_analyze ==
    Calling("map") /\ OnCall(Enter([op |-> "map", f |-> ctl.a.f], ctl.a.a, pos))

Map_resume ==
    /\ Returning("map")
    /\ OnRet(Return(IF ctl.r.ok THEN Ok(MapFn(Head(stack).f, ctl.r.val))
                    ELSE ctl.r, pos))

\* a backtracking choice: the first alternative is run under attempt
Or_analyze_backtrack ==
    /\ Calling("or")
    /\ OnCall(Enter([op |-> "or", b |-> ctl.a.b], Attempt(ctl.a.a), pos))

\* match self.0.analyze(st)
Or_analyze ==
    Calling("or") /\ OnCall(Enter([op |-> "or", b |-> ctl.a.b], ctl.a.a, pos))

\* Ok(x) => Ok(x), Err(_) => self.1.analyze(st)
Or_resume ==
    /\ Returning("or")
    /\ OnRet(IF ctl.r.ok THEN Return(ctl.r, pos)
             ELSE Enter([op |-> "or_b"], Head(stack).b, pos))

\* a choice that reports the second error at the cursor
Or_resume_second_at_cursor ==
    /\ Returning("or_b")
    /\ OnRet(Return(IF ctl.r.ok THEN ctl.r
                    ELSE Err([ctl.r.err EXCEPT !.pos = pos]), pos))

\* what self.1.analyze(st) returned is the result
Or_resume_second == Returning("or_b") /\ OnRet(Return(ctl.r, pos))

And_analyze ==
    Calling("and") /\ OnCall(Enter([op |-> "and", b |-> ctl.a.b], ctl.a.a, pos))

And_resume_first ==
    /\ Returning("and")
    /\ OnRet(IF ctl.r.ok
             THEN Enter([op |-> "and_b", x |-> ctl.r.val], Head(stack).b, pos)
             ELSE Return(ctl.r, pos))

And_resume_second ==
    /\ Returning("and_b")
    /\ OnRet(Return(IF ctl.r.ok THEN Ok(Pair(Head(stack).x, ctl.r.val))
                    ELSE ctl.r, pos))

With_analyze ==
    /\ Calling("with")
    /\ OnCall(Enter([op |-> "with", b |-> ctl.a.b], ctl.a.a, pos))

With_resume ==
    /\ Returning("with")
    /\ OnRet(IF ctl.r.ok THEN Enter([op |-> "with_b"], Head(stack).b, pos)
             ELSE Return(ctl.r, pos))

With_resume_second == Returning("with_b") /\ OnRet(Return(ctl.r, pos))

Skip_analyze ==
    /\ Calling("skip")
    /\ OnCall(Enter([op |-> "skip", b |-> ctl.a.b], ctl.a.a, pos))

Skip_resume_first ==
    /\ Returning("skip")
    /\ OnRet(IF ctl.r.ok
             THEN Enter([op |-> "skip_b", res |-> ctl.r.val], Head(stack).b, pos)
             ELSE Return(ctl.r, pos))

Skip_resume_second ==
    /\ Returning("skip_b")
    /\ OnRet(Return(IF ctl.r.ok THEN Ok(Head(stack).res) ELSE ctl.r, pos))

Optional_analyze ==
    Calling("optional") /\ OnCall(Enter([op |-> "optional"], ctl.a.a, pos))

\* an optional that lets the failure through
Optional_resume_propagate ==
    /\ Returning("optional")
    /\ OnRet(Return(IF ctl.r.ok THEN Ok(Some(ctl.r.val)) ELSE ctl.r, pos))

\* Ok(self.0.analyze(st).ok())
Optional_resume ==
    /\ Returning("optional")
    /\ OnRet(Return(Ok(IF ctl.r.ok THEN Some(ctl.r.val) ELSE None), pos))

\* res.push(x) and the step of `for i in 0..`, both tracked up to LoopCap
LoopPush(res, x) == IF Len(res) < LoopCap THEN Append(res, x) ELSE res
LoopCount(i) == IF i < LoopCap THEN i + 1 ELSE i

\* Loop::analyze up to its first call of the repeated analyzer (i = 0)
Loop_analyze ==
    /\ Calling("loop")
    /\ OnCall(IF ctl.a.max # None /\ 0 >= ctl.a.max[1]
              THEN Return(Ok(<<>>), pos)
              ELSE Enter([op |-> "loop", a |-> ctl.a.a, min |-> ctl.a.min,
                          max |-> ctl.a.max, i |-> 0, res |-> <<>>,
                          pos |-> pos], ctl.a.a, pos))

\* a loop that stops silently on any failure once min is met
Loop_resume_silent ==
    /\ Returning("loop")
    /\ LET fr == Head(stack)
           r == ctl.r
       IN OnRet(IF r.ok
                THEN LET res == LoopPush(fr.res, r.val)
                         i == LoopCount(fr.i)
                     IN IF fr.max # None /\ i >= fr.max[1]
                        THEN Return(Ok(res), pos)
                        ELSE Enter([fr EXCEPT !.i = i, !.res = res,
                                              !.pos = pos], fr.a, pos)
                ELSE IF fr.min # None /\ Len(fr.res) < fr.min[1]
                THEN Return(r, pos)
                ELSE Return(Ok(fr.res), pos))

\* a loop that tests i > max
Loop_resume_off_by_one ==
    /\ Returning("loop")
    /\ LET fr == Head(stack)
           r == ctl.r
       IN OnRet(IF r.ok
                THEN LET res == LoopPush(fr.res, r.val)
                         i == LoopCount(fr.i)
                     IN IF fr.max # None /\ i > fr.max[1]
                        THEN Return(Ok(res), pos)
                        ELSE Enter([fr EXCEPT !.i = i, !.res = res,
                                              !.pos = pos], fr.a, pos)
                ELSE IF fr.min # None /\ Len(fr.res) < fr.min[1]
                THEN Return(r, pos)
                ELSE IF pos # fr.pos THEN Return(r, pos)
                ELSE Return(Ok(fr.res), pos))

\* Loop::analyze from the return of the repeated analyzer to its next call:
\* fr.pos is the `let pos = st.pos()` of the iteration that returned
Loop_resume ==
    /\ Returning("loop")
    /\ LET fr == Head(stack)
           r == ctl.r
       IN OnRet(IF r.ok
                THEN LET res == LoopPush(fr.res, r.val)
                         i == LoopCount(fr.i)
                     IN IF fr.max # None /\ i >= fr.max[1]
                        THEN Return(Ok(res), pos)
                        ELSE Enter([fr EXCEPT !.i = i, !.res = res,
                                              !.pos = pos], fr.a, pos)
                ELSE IF fr.min # None /\ Len(fr.res) < fr.min[1]
                THEN Return(r, pos)
                ELSE IF pos # fr.pos THEN Return(r, pos)
                ELSE Return(Ok(fr.res), pos))

Msg_analyze ==
    /\ Calling("msg")
    /\ OnCall(Enter([op |-> "msg", msg |-> ctl.a.msg], ctl.a.a, pos))

\* a msg that builds a new error at the cursor
Msg_resume_at_cursor ==
    /\ Returning("msg")
    /\ OnRet(Return(IF ctl.r.ok THEN ctl.r
                    ELSE Err(AnalyzerError(pos, ctl.r.err.unexpected,
                                           Head(stack).msg)), pos))

\* Err(mut e) => { e.expecting = self.1.clone(); Err(e) }
Msg_resume ==
    /\ Returning("msg")
    /\ OnRet(Return(IF ctl.r.ok THEN ctl.r
                    ELSE Err([ctl.r.err EXCEPT !.expecting = Head(stack).msg]),
                    pos))

Then_analyze ==
    /\ Calling("then")
    /\ OnCall(Enter([op |-> "then", f |-> ctl.a.f], ctl.a.a, pos))

Then_resume ==
    /\ Returning("then")
    /\ OnRet(IF ctl.r.ok
             THEN Enter([op |-> "then_b"], ThenFn(Head(stack).f, ctl.r.val), pos)
             ELSE Return(ctl.r, pos))

Then_resume_second == Returning("then_b") /\ OnRet(Return(ctl.r, pos))

Either_analyze ==
    Calling("either") /\ OnCall(Enter([op |-> "either"], ctl.a.a, pos))

Either_resume == Returning("either") /\ OnRet(Return(ctl.r, pos))

-----------------------------------------------------------------------------
(* The pub fns and analyzer_func closures of lexer.rs *)

\* a pub fn of the lexer builds its analyzer: the call goes on with it
Rule_call ==
    /\ Calling("rule")
    /\ OnCall([do |-> "call", frames |-> <<>>,
               a |-> IF crate = "src/parser/src" THEN ParserRuleBody(ctl.a)
                     ELSE RuleBody(ctl.a),
               pos |-> pos])

\* let pos = st.pos(); let kind = kind().analyze(st)?;
OneToken_analyze ==
    /\ CallingFunc("one_token")
    /\ OnCall(Enter([op |-> "one_token", pos |-> pos], Rule("kind"), pos))

\* let len = st.pos() - pos; Ok(Token { pos, kind, len })
OneToken_resume ==
    /\ Returning("one_token")
    /\ OnRet(Return(IF ctl.r.ok
                    THEN Ok([pos |-> Head(stack).pos, kind |-> ctl.r.val,
                             len |-> pos - Head(stack).pos])
                    ELSE ctl.r, pos))

IdentOrKeyword_analyze ==
    /\ CallingFunc("ident_or_keyword")
    /\ OnCall(Enter([op |-> "ident_or_keyword"], Rule("ident_str"), pos))

IdentOrKeyword_resume ==
    /\ Returning("ident_or_keyword")
    /\ OnRet(Return(IF ctl.r.ok THEN Ok(KindOfIdent(ctl.r.val)) ELSE ctl.r,
                    pos))

\* the text of literal_char's own error, a String
EscapeNames == <<"t or n or r or \\ or x or u or U">>

LiteralChar_analyze ==
    /\ CallingFunc("literal_char")
    /\ OnCall(Enter([op |-> "literal_char", lit |-> ctl.a.lit], AnyOne, pos))

\* literal_char after its first any_one
LiteralChar_resume ==
    /\ Returning("literal_char")
    /\ OnRet(IF ctl.r.ok /\ ctl.r.val = "\\"
             THEN Enter([op |-> "literal_char_escape",
                         lit |-> Head(stack).lit, pos |-> pos], AnyOne, pos)
             ELSE Return(ctl.r, pos))

\* literal_char after the any_one that follows a backslash
LiteralChar_resume_escape ==
    /\ Returning("literal_char_escape")
    /\ LET fr == Head(stack)
           c == ctl.r.val
           hex(n) == Enter([op |-> "literal_char_hex"], RuleArg("hex_char", n),
                           pos)
       IN OnRet(IF ~ctl.r.ok THEN Return(ctl.r, pos)
                ELSE CASE c = "t" -> Return(Ok("\t"), pos)
                       [] c = "n" -> Return(Ok("\n"), pos)
                       [] c = "r" -> Return(Ok("\r"), pos)
                       [] c = "\\" -> Return(Ok("\\"), pos)
                       [] c = fr.lit -> Return(Ok(c), pos)
                       [] c = "x" -> hex(2)
                       [] c = "u" -> hex(4)
                       [] c = "U" -> hex(8)
                       [] OTHER ->
                            Return(Err(AnalyzerError(fr.pos, EscapeNames,
                                                     <<c>>)), pos))

\* literal_char hands on what hex_char returned
LiteralChar_resume_hex ==
    Returning("literal_char_hex") /\ OnRet(Return(ctl.r, pos))

\* fn block_comment_f: builds its analyzer and runs it
BlockComment_analyze ==
    /\ CallingFunc("block_comment_f")
    /\ OnCall(Enter([op |-> "block_comment_f"], block_comment_f, pos))

BlockComment_resume ==
    Returning("block_comment_f") /\ OnRet(Return(ctl.r, pos))

\* the closure inside block_comment_f
BlockCommentStep_analyze ==
    /\ CallingFunc("block_comment_step")
    /\ LET c0 == peak(data, pos)
           c1 == peak_index(data, pos, 1)
           fr == [op |-> "block_comment_step"]
       IN OnCall(IF c0 = Some("/") /\ c1 = Some("*")
                 THEN Enter(fr, AnalyzerFunc("block_comment_f"), pos)
                 ELSE IF c0 = Some("*") /\ c1 = Some("/")
                 THEN Enter(fr, Fail, pos)
                 ELSE Enter(fr, With(AnyOne, Val(Unit)), pos))

BlockCommentStep_resume ==
    Returning("block_comment_step") /\ OnRet(Return(ctl.r, pos))

\* the analyze() methods of analyzer.rs
Engine ==
    \/ AnyOne_analyze \/ Eof_analyze \/ Val_analyze \/ Token_analyze
    \/ Tokens_analyze \/ Expect_analyze \/ Fail_analyze
    \/ Attempt_analyze \/ Attempt_resume
    \/ Map_analyze \/ Map_resume
    \/ Or_analyze \/ Or_resume \/ Or_resume_second
    \/ And_analyze \/ And_resume_first \/ And_resume_second
    \/ With_analyze \/ With_resume \/ With_resume_second
    \/ Skip_analyze \/ Skip_resume_first \/ Skip_resume_second
    \/ Optional_analyze \/ Optional_resume
    \/ Loop_analyze \/ Loop_resume
    \/ Msg_analyze \/ Msg_resume
    \/ Then_analyze \/ Then_resume \/ Then_resume_second

\* the rules and closures of lexer.rs
LexerRules ==
    \/ Either_analyze \/ Either_resume \/ Rule_call
    \/ OneToken_analyze \/ OneToken_resume
    \/ IdentOrKeyword_analyze \/ IdentOrKeyword_resume
    \/ LiteralChar_analyze \/ LiteralChar_resume \/ LiteralChar_resume_escape
    \/ LiteralChar_resume_hex
    \/ BlockComment_analyze \/ BlockComment_resume
    \/ BlockCommentStep_analyze \/ BlockCommentStep_resume

-----------------------------------------------------------------------------
(* The cursor's own operations, called between analyzer runs *)

Idle(op, arg, res, from) ==
    [mode |-> "idle", op |-> op, arg |-> arg, res |-> res, from |-> from]

\* a Stream method returns res and leaves the cursor at p
StreamOp(op, arg, res, p) ==
    /\ ~Running /\ ctl.mode # "panic"
    /\ pos' = p
    /\ ctl' = Idle(op, arg, res, pos)
    /\ stack' = <<>>
    /\ root' = NoRun
    /\ start' = p
    /\ hist' = <<>>
    /\ tick' = 0
    /\ UNCHANGED <<data, crate>>

SetPos(q) ==
    LET o == set_pos(data, pos, q) IN StreamOp("set_pos", q, o.res, o.pos)

\* `attempt to add with overflow`: the program is gone
Panic(op, arg) ==
    /\ ~Running /\ ctl.mode # "panic"
    /\ ctl' = [mode |-> "panic", op |-> op, arg |-> arg]
    /\ UNCHANGED <<data, pos, stack, root, start, hist, tick, crate>>

\* self.pos() + x wraps in a build without overflow checks and panics in a
\* build with them
AddPos(x) ==
    \/ LET o == add_pos(data, pos, x) IN StreamOp("add_pos", x, o.res, o.pos)
    \/ Overflows(pos, x) /\ Panic("add_pos", x)

StreamNext == LET o == next(data, pos) IN StreamOp("next", 1, o.res, o.pos)

Peak == StreamOp("peak", 0, peak(data, pos), pos)

PeakIndex(i) ==
    \/ StreamOp("peak_index", i, peak_index(data, pos, i), pos)
    \/ Overflows(pos, i) /\ Panic("peak_index", i)

\* the outermost analyze(): analyzer a is run on the stream as it stands
\* (after a run, any Stream method makes the stream ready for the next)
Begin(a) ==
    /\ ctl.mode = "idle"
    /\ ctl' = Call(a)
    /\ stack' = <<>>
    /\ root' = a
    /\ start' = pos
    /\ hist' = <<>>
    /\ tick' = 0
    /\ UNCHANGED <<data, pos, crate>>

\* Stream::new(d)
New(d) ==
    /\ data = d
    /\ pos = 0
    /\ ctl = Idle("new", 0, Some(Unit), 0)
    /\ stack = <<>>
    /\ root = NoRun
    /\ start = 0
    /\ hist = <<>>
    /\ tick = 0

-----------------------------------------------------------------------------
(* The engine on its own: every analyzer of a family, on every short input *)

Strings(S, n) == UNION {[1..k -> S] : k \in 0..n}

Leaves ==
    {AnyOne, Eof, Val("v"), Token("a"), Tokens(<<"a", "b">>), Expect("is_a"),
     Fail}

\* analyzers that can fail after consuming, rewind, or succeed on nothing
Inner ==
    Leaves \cup
    {And(Token("a"), Token("b")), Attempt(Tokens(<<"a", "b">>)),
     Or(Token("b"), Tokens(<<"a", "b">>)), Optional(Tokens(<<"a", "b">>)),
     many(Token("a")), Msg(Tokens(<<"a", "b">>), ExpectAny)}

\* analyzers whose every success consumes input
Consuming ==
    {AnyOne, Token("a"), Tokens(<<"a", "b">>), Expect("is_a"), Fail,
     And(Token("a"), Token("b")), Attempt(Tokens(<<"a", "b">>)),
     Or(Token("b"), Tokens(<<"a", "b">>)),
     Msg(Tokens(<<"a", "b">>), ExpectAny)}

\* analyzers that yield one symbol
Chars == {AnyOne, Token("a"), Expect("is_a")}

EngineRoots ==
    Inner
    \cup {Attempt(a) : a \in Inner}
    \cup {Optional(a) : a \in Inner}
    \cup {Map("wrap", a) : a \in Inner}
    \cup {Msg(a, ExpectEof) : a \in Inner}
    \cup {Then(a, "token") : a \in Chars}
    \cup {many(a) : a \in Consuming}
    \cup {many1(a) : a \in Consuming}
    \cup {many_n(a, n) : a \in Inner, n \in {0, 2}}
    \cup {Or(a, b) : a \in Inner, b \in Inner}
    \cup {or(<<a, Token("b"), AnyOne>>) : a \in Inner}
    \cup {And(a, b) : a \in Inner, b \in Leaves}
    \cup {With(a, b) : a \in Inner, b \in Leaves}
    \cup {Skip(a, b) : a \in Inner, b \in Leaves}

\* arguments of the Stream methods: up to one past the longest input, and
\* the top of the usize range
UsizeNear == 2
UsizeArgs == (0..(MaxLen + 1)) \cup {0 - k : k \in 1..UsizeNear}

Init == crate = "src/src" /\ \E d \in Strings(Sym, MaxLen) : New(d)

Next ==
    \/ \E q \in UsizeArgs : SetPos(q)
    \/ \E x \in UsizeArgs : AddPos(x)
    \/ StreamNext
    \/ Peak
    \/ \E i \in UsizeArgs : PeakIndex(i)
    \/ \E a \in EngineRoots : Begin(a)
    \/ Engine

Spec == Init /\ [][Next]_vars

-----------------------------------------------------------------------------
(* The lexer: every pub fn of lexer.rs, from position 0 *)

\* longest input of the exhaustive lexer runs
MaxLexLen == 3

LexSym == {" ", "\n", "/", "*", "a", "'"}

\* inputs that reach the escapes, the numbers and the operators
LexSamples ==
    { <<"'", "\\", "n", "'">>,
      <<"'", "\\", "q", "'">>,
      <<"'", "\\", "x", "4", "1", "'">>,
      <<"'", "\\", "u", "D", "8", "0", "0", "'">>,
      <<"\"", "a", "\"">>,
      <<"3">>, <<"3", "i", "6", "4">>, <<"3", ".", "0">>,
      <<"3", ".", "0", "f", "3", "2">>, <<"3", "f", "6", "4">>,
      <<"<", "=">>, <<"<">>,
      <<"i", "f", "f", "y">>, <<"i", "f">> }

\* the two-character operators: first char, second char
OperatorPairs ==
    { <<"!", "=">>, <<"*", "*">>, <<"&", "&">>, <<"|", "|">>, <<"<", "=">>,
      <<">", "=">>, <<"=", "=">> }

\* each operator alone, its prefix alone, and both followed by more text
OperatorSamples ==
    UNION { { <<o[1], o[2]>>, <<o[1]>>, <<o[1], "a">>, <<o[1], " ", o[2]>>,
              <<o[1], o[2], o[2]>>, <<o[1], o[2], "=">> } : o \in OperatorPairs }

\* number texts: digits, an optional fractional part, an optional suffix
NumCases ==
    [int : {<<"3">>, <<"1", "2">>},
     frac : {None, Some(<<"0">>), Some(<<"2", "5">>)},
     suffix : {None, Some(<<"i", "3", "2">>), Some(<<"i", "6", "4">>),
               Some(<<"f", "3", "2">>), Some(<<"f", "6", "4">>), Some(<<"x">>)}]

NumText(c) ==
    c.int \o (IF c.frac = None THEN <<>> ELSE <<".">> \o c.frac[1])
          \o (IF c.suffix = None THEN <<>> ELSE c.suffix[1])

NumberSamples == {NumText(c) : c \in NumCases}

\* properly nested block comments, each followed by the identifier x
CommentSamples ==
    { <<"/", "*", "*", "/", "x">>,
      <<"/", "*", "a", "*", "/", " ", "x">>,
      <<"/", "*", "/", "*", "*", "/", "*", "/", "x">>,
      <<"/", "*", "/", "*", "/", "*", "*", "/", "*", "/", "a", "*", "/", "x">>,
      <<"/", "*", " ", "a", " ", "/", "*", " ", "b", " ", "*", "/", " ", "c",
        " ", "*", "/", " ", "x">> }

\* bodies of string literals with the text they denote, or none where the
\* body holds an escape that is not one
EscapeTable ==
    { [body |-> <<"a", "\\", "t", "b">>, text |-> Some(<<"a", "\t", "b">>)],
      [body |-> <<"\\", "n", "\\", "r">>, text |-> Some(<<"\n", "\r">>)],
      [body |-> <<"\\", "\\", "\\", "\"">>, text |-> Some(<<"\\", "\"">>)],
      [body |-> <<"\\", "x", "4", "1">>, text |-> Some(<<"A">>)],
      [body |-> <<"\\", "u", "0", "0", "4", "1">>, text |-> Some(<<"A">>)],
      [body |-> <<"\\", "U", "0", "0", "0", "0", "0", "0", "4", "1">>,
       text |-> Some(<<"A">>)],
      [body |-> <<"a", "b">>, text |-> Some(<<"a", "b">>)],
      [body |-> <<"\\", "q">>, text |-> None],
      [body |-> <<"a", "\\", "q", "b">>, text |-> None],
      [body |-> <<"\\", "x", "4", "g">>, text |-> None],
      [body |-> <<"\\", "u", "D", "8", "0", "0">>, text |-> None] }

Quoted(body) == <<"\"">> \o body \o <<"\"">>

EscapeSamples == {Quoted(e.body) : e \in EscapeTable}

\* names: reserved words, names that start with one, and what may follow
NameSamples ==
    { <<"f", "o", "r">>, <<"f", "o", "r", "m">>, <<"f", "o", "r", "(">>,
      <<"i", "f", "_">>, <<"i", "f", "1">>, <<"i", "f", " ", "x">>,
      <<"l", "e", "t", "t", "e", "r">>, <<"l", "e", "t">>,
      <<"i", "3", "2">>, <<"i", "3", "2", "x">>, <<"x", "_", "1", "+">> }

\* tokens followed by whitespace and comments up to the end, with the
\* positions of the tokens (each is the identifier a)
TrailingTable ==
    { [text |-> <<"a", " ">>, at |-> <<0>>],
      [text |-> <<"a", "\n", " ">>, at |-> <<0>>],
      [text |-> <<" ", "a", " ">>, at |-> <<1>>],
      [text |-> <<"a", " ", "a", " ", "\n">>, at |-> <<0, 2>>],
      [text |-> <<"a", " ", "/", "*", "*", "/">>, at |-> <<0>>],
      [text |-> <<"a", "/", "*", " ", "*", "/", " ", "a", "/", "/", "a">>,
       at |-> <<0, 7>>] }

TrailingSamples == {e.text : e \in TrailingTable}

\* block comments left open at the end of the input, at depth 1, 2 and 3
UnterminatedSamples ==
    { <<"/", "*">>, <<"/", "*", "a">>, <<"/", "*", "*">>, <<"/", "*", "/">>,
      <<"/", "*", "a", "*">>,
      <<"/", "*", "/", "*">>,
      <<"/", "*", "/", "*", "*", "/">>,
      <<"/", "*", " ", "a", " ", "/", "*", " ", "b", " ", "*", "/">>,
      <<"/", "*", "/", "*", "*", "/", "/", "*", "/", "*", "a">> }

\* a, a lone "/", a: with the positions of the three tokens
DivisionTable ==
    { [text |-> <<"a", "/", "a">>, at |-> <<0, 1, 2>>],
      [text |-> <<"a", " ", "/", " ", "a">>, at |-> <<0, 2, 4>>],
      [text |-> <<"a", "/", " ", "a">>, at |-> <<0, 1, 3>>] }

DivisionSamples == {e.text : e \in DivisionTable}

\* digits followed by a "." that no digit follows
DotSamples ==
    { <<"3", ".">>, <<"1", "2", ".">>, <<"3", ".", ".">>, <<"3", ".", "x">>,
      <<"3", ".", "i", "3", "2">>, <<"3", ".", " ", "5">>, <<"3", ".", "5", ".">> }

\* string literals whose body has no quote and no backslash, and what follows
PlainTable ==
    { [body |-> <<>>, rest |-> <<>>],
      [body |-> <<"a">>, rest |-> <<>>],
      [body |-> <<"a", "b">>, rest |-> <<>>],
      [body |-> <<"a", " ", "b">>, rest |-> <<>>],
      [body |-> <<"a">>, rest |-> <<"x">>],
      [body |-> <<"a">>, rest |-> <<" ", "\"", "b", "\"">>],
      [body |-> <<>>, rest |-> <<";">>] }

PlainSamples == {Quoted(e.body) \o e.rest : e \in PlainTable}

LexerInputs ==
    Strings(LexSym, MaxLexLen) \cup LexSamples \cup OperatorSamples
    \cup NumberSamples \cup CommentSamples \cup EscapeSamples
    \cup NameSamples \cup TrailingSamples \cup UnterminatedSamples
    \cup DivisionSamples \cup DotSamples \cup PlainSamples

LexerRoots ==
    {Rule(n) : n \in {"skip", "ident_str", "num_literal", "lexer", "one_token",
                      "kind", "literal", "char_literal", "string_literal",
                      "ident_or_keyword", "symbol"}}
    \cup {RuleArg("hex_char", 2), RuleArg("literal_char", "'"),
          AnalyzerFunc("block_comment_f"),
          Skip(Rule("one_token"), Eof), Msg(Rule("kind"), ExpectUnknown),
          With(Rule("skip"), Rule("skip"))}

\* the pub fns only src/parser/src/lexer.rs has
ParserRoots == {Rule(n) : n \in {"space", "line_comment", "block_comment", "comment"}}

Crates == {"src/src", "src/parser/src"}

InitLexer == \E d \in LexerInputs, c \in Crates : New(d) /\ crate = c

NextLexer ==
    \/ \E a \in LexerRoots : Begin(a)
    \/ \E a \in ParserRoots : crate = "src/parser/src" /\ Begin(a)
    \/ Engine
    \/ LexerRules

SpecLexer == InitLexer /\ [][NextLexer]_vars

\* analyze() is sequential code: a run that can take a step takes it (every
\* step of a run changes tick)
FairLexer == SpecLexer /\ WF_tick(Engine \/ LexerRules)

-----------------------------------------------------------------------------
(* Properties of the engine, read off the history of a finished run *)

\* the repeated analyzer's calls, returns and collected values of a Loop run
LoopCalls == SelectSeq(hist, LAMBDA e : e.ev = "call")
LoopRets == SelectSeq(hist, LAMBDA e : e.ev = "ret")
LoopCollected ==
    LET oks == SelectSeq(LoopRets, LAMBDA e : e.r.ok)
    IN [k \in 1..Len(oks) |-> oks[k].r.val]
LoopAtLeastMin(n) == root.min = None \/ n >= root.min[1]
LoopFailedIteration ==
    Done /\ root.op = "loop" /\ hist # <<>> /\ ~hist[Len(hist)].r.ok

\* C1: attempt(A) runs A from the entry position; when A fails it returns
\* A's error with the cursor back at the entry position, and when A succeeds
\* it returns A's value with the cursor where A left it.
AttemptRestoresCursor ==
    (Done /\ root.op = "attempt") =>
        /\ Len(hist) = 2
        /\ hist[1] = [ev |-> "call", a |-> root.a, pos |-> start]
        /\ hist[2].ev = "ret"
        /\ ctl.r = hist[2].r
        /\ pos = IF hist[2].r.ok THEN hist[2].pos ELSE start

\* A failed after consuming input, and the cursor is back at the start
AttemptRewound ==
    /\ Done /\ root.op = "attempt"
    /\ ~ctl.r.ok /\ hist[2].pos > start /\ pos = start

\* C4: or(a, b) never rewinds: when a succeeds b is not run and result and
\* cursor are a's; when a fails b is run from where a's failure left the
\* cursor, and result and final cursor are b's.
OrNeverRewinds ==
    (Done /\ root.op = "or") =>
        /\ Len(hist) >= 2
        /\ hist[1] = [ev |-> "call", a |-> root.a, pos |-> start]
        /\ hist[2].ev = "ret"
        /\ IF hist[2].r.ok
           THEN Len(hist) = 2 /\ ctl.r = hist[2].r /\ pos = hist[2].pos
           ELSE /\ Len(hist) = 4
                /\ hist[3] = [ev |-> "call", a |-> root.b, pos |-> hist[2].pos]
                /\ hist[4].ev = "ret"
                /\ ctl.r = hist[4].r
                /\ pos = hist[4].pos

\* a failed past the entry position and b, run from there, succeeded
OrSecondRunsPastStart ==
    /\ Done /\ root.op = "or" /\ Len(hist) = 4
    /\ hist[2].pos > start /\ hist[3].pos = hist[2].pos /\ ctl.r.ok

\* C5: when both branches of or(a, b) fail the error is exactly b's: same
\* position, unexpected and expecting.
OrReportsSecondError ==
    (Done /\ root.op = "or" /\ ~ctl.r.ok) =>
        /\ Len(hist) = 4
        /\ ~hist[2].r.ok /\ ~hist[4].r.ok
        /\ ctl.r.err.pos = hist[4].r.err.pos
        /\ ctl.r.err.unexpected = hist[4].r.err.unexpected
        /\ ctl.r.err.expecting = hist[4].r.err.expecting

\* both branches failed, with errors that differ in every field
OrBothFailedDifferently ==
    /\ Done /\ root.op = "or" /\ ~ctl.r.ok /\ Len(hist) = 4
    /\ hist[2].r.err.pos # hist[4].r.err.pos
    /\ hist[2].r.err.unexpected # hist[4].r.err.unexpected
    /\ hist[2].r.err.expecting.k # hist[4].r.err.expecting.k

\* C6: optional(a) always succeeds, with present(v) when a succeeds with v
\* and absent when a fails, and the cursor is where a left it in both cases.
OptionalNeverFails ==
    (Done /\ root.op = "optional") =>
        /\ Len(hist) = 2
        /\ hist[1] = [ev |-> "call", a |-> root.a, pos |-> start]
        /\ hist[2].ev = "ret"
        /\ ctl.r.ok
        /\ ctl.r.val = IF hist[2].r.ok THEN Some(hist[2].r.val) ELSE None
        /\ pos = hist[2].pos

\* a failed after consuming input: absent, and the cursor stays advanced
OptionalAbsentPastStart ==
    /\ Done /\ root.op = "optional"
    /\ ~hist[2].r.ok /\ ctl.r = Ok(None) /\ pos > start

\* C7: when the failing iteration of a repetition advanced the cursor the
\* repetition returns that error, even with the minimum met; it succeeds
\* with the collected results only when the failing iteration left the cursor
\* at its start and at least min results were collected.
LoopPropagatesPartialFailure ==
    LoopFailedIteration =>
        LET c == hist[Len(hist) - 1]
            e == hist[Len(hist)]
            n == Len(LoopCollected)
        IN /\ c = [ev |-> "call", a |-> root.a, pos |-> c.pos]
           /\ e.ev = "ret"
           /\ e.pos # c.pos => ctl.r = e.r
           /\ ctl.r.ok <=> (e.pos = c.pos /\ LoopAtLeastMin(n))
           /\ ctl.r.ok => ctl.r.val = LoopCollected /\ pos = e.pos

\* the minimum was met, then an iteration consumed input and failed
LoopFailedAfterProgress ==
    /\ LoopFailedIteration /\ ~ctl.r.ok
    /\ Len(LoopCollected) >= 1 /\ LoopAtLeastMin(Len(LoopCollected))
    /\ hist[Len(hist)].pos > hist[Len(hist) - 1].pos

\* C8: a repetition succeeds only with min <= n <= max results (many1 at
\* least 1, many_n(k) exactly k); when the repeated analyzer fails before min
\* successes the repetition fails with that error; the analyzer is never run
\* more than max times.
LoopRespectsBounds ==
    (Done /\ root.op = "loop") =>
        LET n == Len(LoopCollected) IN
        /\ Len(LoopCalls) = Len(LoopRets)
        /\ ctl.r.ok =>
              /\ ctl.r.val = LoopCollected
              /\ LoopAtLeastMin(n)
              /\ root.max # None => n <= root.max[1]
              /\ root = many1(root.a) => n >= 1
              /\ \A k \in 0..LoopCap : root = many_n(root.a, k) => n = k
        /\ (hist # <<>> /\ ~hist[Len(hist)].r.ok /\ ~LoopAtLeastMin(n)) =>
              ctl.r = hist[Len(hist)].r
        /\ root.max # None => Len(LoopCalls) <= root.max[1]

\* many_n(2) stopped after two results although a third would have matched
LoopStoppedAtMax ==
    /\ Done /\ root = many_n(Token("a"), 2) /\ ctl.r.ok
    /\ Len(LoopCalls) = 2
    /\ pos < Len(data) /\ data[pos + 1] = "a"

\* C9: msg(label) changes nothing when a succeeds; when a fails it returns
\* a's error with only expecting replaced by label; the cursor is a's.
MsgReplacesOnlyExpecting ==
    (Done /\ root.op = "msg") =>
        /\ Len(hist) = 2
        /\ hist[1] = [ev |-> "call", a |-> root.a, pos |-> start]
        /\ hist[2].ev = "ret"
        /\ pos = hist[2].pos
        /\ ctl.r.ok = hist[2].r.ok
        /\ IF hist[2].r.ok THEN ctl.r = hist[2].r
           ELSE /\ ctl.r.err.pos = hist[2].r.err.pos
                /\ ctl.r.err.unexpected = hist[2].r.err.unexpected
                /\ ctl.r.err.expecting = root.msg

\* a failed with another expectation, at a position that is not the cursor
MsgRelabelled ==
    /\ Done /\ root.op = "msg" /\ ~ctl.r.ok
    /\ hist[2].r.err.expecting # root.msg
    /\ hist[2].r.err.unexpected # None
    /\ ctl.r.err.pos # pos

\* C10: the cursor stays within 0..len through every Stream method and every
\* analyzer step, and set_pos(p) succeeds exactly when p <= len.
CursorWithinInput ==
    /\ 0 <= pos /\ pos <= Len(data)
    /\ (ctl.mode = "idle" /\ ctl.op = "set_pos") =>
          /\ ctl.res # None <=> UsizeLeq(ctl.arg, Len(data))
          /\ ctl.res # None => pos = ctl.arg

\* with the cursor moved to the end, set_pos(len + 1) is refused
SetPosRefusedPastEnd ==
    /\ ctl.mode = "idle" /\ ctl.op = "set_pos"
    /\ Len(data) > 0 /\ ctl.from = Len(data)
    /\ ctl.arg = Len(data) + 1 /\ ctl.res = None /\ pos = Len(data)

-----------------------------------------------------------------------------
(* Properties of the lexer *)

IsSpace(c) == c \in {" ", "\n", "\t"}

\* inputs made of words and whitespace only, with at least one word
PlainWords(d) ==
    /\ \A j \in 1..Len(d) : IsSpace(d[j]) \/ d[j] = "a"
    /\ \E j \in 1..Len(d) : d[j] = "a"

\* positions (from 0) inside the span of one of the tokens ts
InSpan(ts, j) == \E k \in 1..Len(ts) : ts[k].pos <= j /\ j < ts[k].pos + ts[k].len

\* the spans of ts are in order, disjoint and not empty, and cover exactly
\* the positions of d that are not whitespace
TokenSpansCover(ts, d) ==
    /\ \A k \in 1..Len(ts) : ts[k].len > 0
    /\ \A k \in 1..(Len(ts) - 1) : ts[k].pos + ts[k].len <= ts[k + 1].pos
    /\ \A j \in 0..(Len(d) - 1) : InSpan(ts, j) <=> ~IsSpace(d[j + 1])

\* C2: run from position 0 on any finite input, lexer() eventually returns,
\* with a token sequence or with an error.
LexerTerminates == [](root = Rule("lexer") => <>Done)

-----------------------------------------------------------------------------
(* Properties of the cursor during a run *)

\* analyzers that contain an attempt
RECURSIVE HasAttempt(_)
HasAttempt(a) ==
    CASE a.op = "attempt" -> TRUE
      [] a.op \in {"or", "and", "with", "skip"} ->
            HasAttempt(a.a) \/ HasAttempt(a.b)
      [] a.op \in {"map", "optional", "loop", "msg", "then"} -> HasAttempt(a.a)
      [] OTHER -> FALSE

\* C11: during a run the cursor never decreases, except in attempt when the
\* attempted analyzer failed, and then it becomes the position attempt
\* recorded on entry; so a run of an analyzer without attempt ends at or
\* after the position where it started, on success and on failure.
CursorNeverDecreasesButInAttempt ==
    /\ [][Running =>
            \/ pos' >= pos
            \/ /\ Returning("attempt") /\ ~ctl.r.ok
               /\ pos' = Head(stack).pos]_vars
    /\ []((Done /\ ~HasAttempt(root)) => pos >= start)

\* an analyzer without attempt failed after the cursor had moved on
FailedPastStartWithoutAttempt ==
    Done /\ ~HasAttempt(root) /\ ~ctl.r.ok /\ pos > start /\ start > 0

-----------------------------------------------------------------------------
(* Properties of the lexer's rules *)

\* C12: skip of src/src/lexer.rs run twice in immediate succession ends where
\* the first run ended: both runs return success and the second consumes
\* nothing.
SkipIsIdempotent ==
    []((crate = "src/src" /\ root = With(Rule("skip"), Rule("skip")))
         => <>(/\ Done /\ ctl.r.ok /\ Len(hist) = 4
               /\ hist[4].r.ok /\ hist[4].pos = hist[2].pos))

\* the two-character operators with their symbols, and the symbol of the
\* one-character prefix
OperatorTable ==
    { [c1 |-> "!", c2 |-> "=", two |-> "Ne", one |-> "Not"],
      [c1 |-> "*", c2 |-> "*", two |-> "Pow", one |-> "Mul"],
      [c1 |-> "&", c2 |-> "&", two |-> "And", one |-> "BitAnd"],
      [c1 |-> "|", c2 |-> "|", two |-> "Or", one |-> "BitOr"],
      [c1 |-> "<", c2 |-> "=", two |-> "Lte", one |-> "Lt"],
      [c1 |-> ">", c2 |-> "=", two |-> "Gte", one |-> "Gt"],
      [c1 |-> "=", c2 |-> "=", two |-> "Eq", one |-> "Assign"] }

\* C13: symbol() on input that starts with a two-character operator yields
\* that operator's symbol and consumes 2; on input that starts with the
\* operator's first character not followed by its second it yields the
\* one-character symbol and consumes 1.
SymbolMaximalMunch ==
    (Done /\ root = Rule("symbol")) =>
        \A o \in OperatorTable :
            (Len(data) >= 1 /\ data[1] = o.c1) =>
                IF Len(data) >= 2 /\ data[2] = o.c2
                THEN ctl.r = Ok(o.two) /\ pos = 2
                ELSE ctl.r = Ok(o.one) /\ pos = 1

\* "<=" followed by more text gave Lte, with the cursor after the operator
SymbolLteMunched ==
    /\ Done /\ root = Rule("symbol")
    /\ data = <<"<", "=", "=">> /\ ctl.r = Ok("Lte") /\ pos = 2

\* the literal the claim gives a number text: its variant, or none
NumExpected(c) ==
    IF c.frac # None
    THEN CASE c.suffix \in {None, Some(<<"f", "6", "4">>)} -> Some("F64")
           [] c.suffix = Some(<<"f", "3", "2">>) -> Some("F32")
           [] OTHER -> None
    ELSE CASE c.suffix \in {None, Some(<<"i", "3", "2">>)} -> Some("I32")
           [] c.suffix = Some(<<"i", "6", "4">>) -> Some("I64")
           [] OTHER -> None

\* C14: num_literal on digits, optional fraction, optional suffix: with a
\* fraction, no suffix or f64 gives F64 and f32 gives F32; without one, no
\* suffix or i32 gives I32 and i64 gives I64; every other suffix fails, f32
\* and f64 after plain digits included.
NumericSuffixDispatch ==
    (Done /\ root = Rule("num_literal")) =>
        \A c \in NumCases :
            data = NumText(c) =>
                IF NumExpected(c) = None THEN ~ctl.r.ok
                ELSE /\ ctl.r.ok /\ pos = Len(data)
                     /\ ctl.r.val.t = NumExpected(c)[1]
                     /\ IF c.frac = None THEN ctl.r.val.v = c.int
                        ELSE ctl.r.val.v = [int |-> c.int, frac |-> c.frac[1]]

\* C15: lexing a properly nested block comment followed by an identifier
\* yields exactly one token, that identifier, placed after the outermost
\* closing of the comment.
NestedCommentSkipped ==
    [](/\ root = Rule("lexer") /\ data \in CommentSamples
         => <>(/\ root = Rule("lexer") /\ data \in CommentSamples
               /\ Done /\ ctl.r.ok /\ Len(ctl.r.val) = 1
               /\ ctl.r.val[1].pos = Len(data) - 1 /\ ctl.r.val[1].len = 1
               /\ ctl.r.val[1].kind.t = "Ident"
               /\ ctl.r.val[1].kind.v = <<"x">>))

\* C16: a string literal whose body uses only the recognized escapes lexes
\* to the decoded text, all of it consumed; one whose body holds a backslash
\* followed by any other character, a bad hex digit or a code point that is
\* no scalar value fails.
EscapesDecoded ==
    (Done /\ root = Rule("string_literal")) =>
        \A e \in EscapeTable :
            data = Quoted(e.body) =>
                IF e.text = None THEN ~ctl.r.ok
                ELSE ctl.r = Ok(e.text[1]) /\ pos = Len(data)

\* the longest start of d made of name characters
NameRun(d) ==
    LET ks == {k \in 0..Len(d) :
                 \A i \in 1..k : is_ascii_alphanumeric(d[i]) \/ d[i] = "_"}
    IN SubSeq(d, 1, CHOOSE k \in ks : \A j \in ks : j <= k)

IsReserved(s) == \E i \in 1..Len(Keywords) : Keywords[i][1] = s

\* C17: on input that starts with a letter, ident_or_keyword consumes the
\* whole run of letters, digits and underscores, and yields a Keyword when the
\* whole run is a reserved word and otherwise the identifier of the whole run;
\* one_token gives that token the length of the run.
KeywordIsWholeName ==
    (/\ Done /\ root \in {Rule("ident_or_keyword"), Rule("one_token")}
     /\ data # <<>> /\ is_ascii_alphabetic(data[1])) =>
        LET run == NameRun(data)
            k == IF root = Rule("one_token") THEN ctl.r.val.kind ELSE ctl.r.val
        IN /\ ctl.r.ok /\ pos = Len(run)
           /\ root = Rule("one_token") => ctl.r.val.len = Len(run)
           /\ k.t = IF IsReserved(run) THEN "Keyword" ELSE "Ident"
           /\ k.t = "Ident" => k.v = run

\* "iffy" came out as one identifier of length 4
IffyIsOneIdent ==
    /\ Done /\ root = Rule("one_token") /\ data = <<"i", "f", "f", "y">>
    /\ ctl.r = Ok([pos |-> 0, kind |-> [t |-> "Ident", v |-> data], len |-> 4])

\* the identifier tokens a at the given positions
IdentsAt(at) ==
    [i \in 1..Len(at) |->
        [pos |-> at[i], kind |-> [t |-> "Ident", v |-> <<"a">>], len |-> 1]]

\* lexer() has returned the tokens of a text of the table, at its end
TrailingLexed ==
    /\ root = Rule("lexer") /\ data \in TrailingSamples
    /\ Done /\ ctl.r.ok /\ pos = Len(data)
    /\ LET e == CHOOSE e \in TrailingTable : e.text = data
       IN Len(ctl.r.val) = Len(e.at) /\ ctl.r.val = IdentsAt(e.at)

\* C18: on tokens followed by whitespace and comments up to the end of the
\* input, lexer() succeeds with exactly those tokens: the trailing text is
\* skipped before the end-of-input check.
TrailingSkipAccepted ==
    []((root = Rule("lexer") /\ data \in TrailingSamples) => <>TrailingLexed)

\* lexer() has returned: all of the input as at least one token, or an error
\* with a position in the input; an error when the input holds only whitespace
LexerWholeOrError ==
    /\ root = Rule("lexer") /\ Done
    /\ IF ctl.r.ok THEN Len(ctl.r.val) >= 1 /\ pos = Len(data)
       ELSE ctl.r.err.pos \in 0..Len(data)
    /\ (\A i \in 1..Len(data) : IsSpace(data[i])) => ~ctl.r.ok

\* C19: lexer() of src/src/lexer.rs returns either success, with at least one
\* token and the cursor at the end of the input, or an error that carries a
\* position; on an input without any token (empty or whitespace only) it
\* returns an error.
LexerAllOrNothing ==
    []((crate = "src/src" /\ root = Rule("lexer")) => <>LexerWholeOrError)

\* C20: whenever an analyzer repeated by many or many1 (a Loop without a
\* maximum) returns success in a run of the lexer's rules, the cursor is past
\* the position at which that iteration began.
RepeatedAnalyzersConsume ==
    (Returning("loop") /\ Head(stack).max = None /\ ctl.r.ok) =>
        pos > Head(stack).pos

\* C21: an error that a step of a lexer run creates has the cursor's position
\* of that moment and, as unexpected, the symbol there (none at the end of
\* the input); an error that a step hands on keeps its position and its
\* unexpected field.
ErrorsPositionedWhereStopped ==
    [][(Running /\ ctl'.mode = "ret" /\ ~ctl'.r.ok) =>
          IF ctl.mode = "ret" /\ ~ctl.r.ok
          THEN /\ ctl'.r.err.pos = ctl.r.err.pos
               /\ ctl'.r.err.unexpected = ctl.r.err.unexpected
          ELSE /\ ctl'.r.err.pos = pos'
               /\ ctl'.r.err.unexpected = peak(data, pos')]_vars

\* the block-comment rule, and the rules that skip comments
CommentRules == {AnalyzerFunc("block_comment_f"), Rule("skip"), Rule("lexer")}

\* C22: on an input whose block comment is still open at the end of the
\* input, the block-comment rule, skip and lexer each return an error.
UnterminatedCommentFails ==
    []((root \in CommentRules /\ data \in UnterminatedSamples)
         => <>(/\ root \in CommentRules /\ data \in UnterminatedSamples
               /\ Done /\ ~ctl.r.ok))

\* lexer() has returned Ident, Symbol(Div), Ident at the positions of the table
DivisionLexed ==
    /\ root = Rule("lexer") /\ data \in DivisionSamples
    /\ Done /\ ctl.r.ok /\ pos = Len(data) /\ Len(ctl.r.val) = 3
    /\ LET e == CHOOSE e \in DivisionTable : e.text = data
           ts == ctl.r.val
       IN /\ \A i \in 1..3 : ts[i].pos = e.at[i] /\ ts[i].len = 1
          /\ ts[1].kind.t = "Ident" /\ ts[3].kind.t = "Ident"
          /\ ts[2].kind.t = "Symbol" /\ ts[2].kind.v = "Div"

\* C23: a "/" followed by neither "/" nor "*" is not taken by the skipping of
\* whitespace and comments: lexing an identifier, a lone "/" and an
\* identifier yields the three tokens Ident, Symbol(Div), Ident.
LoneSlashIsDiv ==
    (root = Rule("lexer") /\ data \in DivisionSamples /\ Done) => DivisionLexed

\* texts of the form digits, optionally "." and digits, optionally a name
IsDigits(t) == t # <<>> /\ \A k \in 1..Len(t) : is_ascii_digit(t[k])

IsName(t) ==
    /\ t # <<>> /\ is_ascii_alphabetic(t[1])
    /\ \A k \in 2..Len(t) : is_ascii_alphanumeric(t[k]) \/ t[k] = "_"

IsNumberText(t) ==
    \E i \in 1..Len(t), j \in 1..Len(t) :
        /\ i <= j
        /\ IsDigits(SubSeq(t, 1, i))
        /\ \/ i = j
           \/ t[i + 1] = "." /\ IsDigits(SubSeq(t, i + 2, j))
        /\ j = Len(t) \/ IsName(SubSeq(t, j + 1, Len(t)))

\* C24: whenever num_literal succeeds, the text it consumed is digits,
\* optionally "." followed by one or more digits, optionally a suffix name: a
\* "." that no digit follows is not consumed.
NumLiteralConsumesNumberText ==
    (Done /\ root = Rule("num_literal") /\ ctl.r.ok) =>
        IsNumberText(SubSeq(data, start + 1, pos))

\* C25: literal_char for the quote q never consumes an unescaped q, and
\* string_literal on a text without quotes or backslashes enclosed in double
\* quotes succeeds, returns that text and leaves the cursor immediately after
\* the closing quote.
StringEndsAtFirstQuote ==
    /\ (Done /\ root = RuleArg("literal_char", "'") /\ ctl.r.ok) =>
           ~(pos = start + 1 /\ data[pos] = "'")
    /\ (Done /\ root = Rule("string_literal")) =>
           \A e \in PlainTable :
               data = Quoted(e.body) \o e.rest =>
                   ctl.r = Ok(e.body) /\ pos = Len(e.body) + 2

\* index p + n, taken as a number and not as a wrapped usize, is past len
\* (n < 0 stands for an n at the top of the usize range)
PastLen(p, n, len) == n < 0 \/ p + n > len

\* C26: a failing cursor move changes nothing: set_pos(p) with p > len,
\* add_pos(n) with pos + n > len and next() at the end of input return None and
\* leave the position unchanged; peak and peak_index never change the
\* position and return None when the addressed index is at or past the end.
FailingMoveChangesNothing ==
    /\ ctl.mode # "panic"
    /\ ctl.mode = "idle" =>
        /\ (ctl.op = "set_pos" /\ PastLen(0, ctl.arg, Len(data))) =>
               ctl.res = None /\ pos = ctl.from
        /\ (ctl.op = "add_pos" /\ PastLen(ctl.from, ctl.arg, Len(data))) =>
               ctl.res = None /\ pos = ctl.from
        /\ (ctl.op = "next" /\ ctl.from = Len(data)) =>
               ctl.res = None /\ pos = ctl.from
        /\ ctl.op \in {"peak", "peak_index"} =>
               /\ pos = ctl.from
               /\ PastLen(ctl.from, ctl.arg, Len(data) - 1) => ctl.res = None

====
